---- MODULE Spec2Model ----
(***************************************************************************)
(* Model of GSConnection (src/GSConnection.py): the reader thread with its *)
(* line framer, the condition-protected message queue, and the command     *)
(* protocol engine built on _nextmsg / _expectresponse.                    *)
(*                                                                         *)
(* A line is a sequence of one-character strings.  The result of _nextmsg  *)
(* is an option: None is the empty sequence, a line l is <<l>>.            *)
(***************************************************************************)
EXTENDS Integers, Sequences, FiniteSets, TLC

\* ------------------------------------------------------------------ bounds
MaxReads == 2        \* reads that return data to the reader thread (Spec)
MaxTime == 1         \* ticks of the clock time.time() reads (Spec)
MaxStream == 5       \* bytes fed to the framer (SpecFramer)
MaxStray == 1        \* lines queued before the command is called (SpecProto)
MaxLogLines == 2     \* log lines the device sends after the header (SpecProto)
MaxPayload == 2      \* payload bytes of a log line (SpecChecksum)

\* ------------------------------------------------------------- characters
CR == "\r"
LF == "\n"
\* the bytes the transport may deliver in Spec and SpecFramer
WireChars == {"a", CR, LF}

None == <<>>
Some(line) == <<line>>

\* ------------------------------------------------------- protocol lines
\* the acknowledgement marker: the empty line
EmptyLine == <<>>
\* "Standard": getversion, line 128
StandardLine ==
    <<"S", "t", "a", "n", "d", "a", "r", "d">>
\* "Version 6.00 00123 01F4 15.03.21 10:30:00": a PC-mode version reply
VersionLine ==
    <<"V", "e", "r", "s", "i", "o", "n", " ", "6", ".", "0", "0", " ", "0",
      "0", "1", "2", "3", " ", "0", "1", "F", "4", " ", "1", "5", ".", "0",
      "3", ".", "2", "1", " ", "1", "0", ":", "3", "0", ":", "0", "0">>
\* "Version 6.00 00123 01F4 31.02.21 10:30:00": the pattern matches, the
\* date does not exist
VersionBadDate ==
    <<"V", "e", "r", "s", "i", "o", "n", " ", "6", ".", "0", "0", " ", "0",
      "0", "1", "2", "3", " ", "0", "1", "F", "4", " ", "3", "1", ".", "0",
      "2", ".", "2", "1", " ", "1", "0", ":", "3", "0", ":", "0", "0">>
\* "Version 6.00": neither dialect
GarbageLine ==
    <<"V", "e", "r", "s", "i", "o", "n", " ", "6", ".", "0", "0">>
\* "PC-Mode gestartet": switchmode, line 160
PcModeStarted ==
    <<"P", "C", "-", "M", "o", "d", "e", " ", "g", "e", "s", "t", "a", "r",
      "t", "e", "t">>
\* "PC-Mode beendet": switchmode, line 156
PcModeEnded ==
    <<"P", "C", "-", "M", "o", "d", "e", " ", "b", "e", "e", "n", "d", "e",
      "t">>
\* "GAMMA-SCOUT Protokoll": readlog, line 169
ProtocolHeader ==
    <<"G", "A", "M", "M", "A", "-", "S", "C", "O", "U", "T", " ", "P", "r",
      "o", "t", "o", "k", "o", "l", "l">>
\* "Protokollspeicher wieder frei": clearlog, line 194
LogCleared ==
    <<"P", "r", "o", "t", "o", "k", "o", "l", "l", "s", "p", "e", "i", "c",
      "h", "e", "r", " ", "w", "i", "e", "d", "e", "r", " ", "f", "r", "e",
      "i">>
\* "010203": payload 01 02, checksum 03
GoodLogLine ==
    <<"0", "1", "0", "2", "0", "3">>
\* "FF0201": payload FF 02, checksum (0xFF + 0x02) & 0xff = 01
WrapLogLine ==
    <<"F", "F", "0", "2", "0", "1">>
\* "0102FF": payload 01 02, checksum FF instead of 03
BadLogLine ==
    <<"0", "1", "0", "2", "F", "F">>
\* "01020": an odd number of hex digits
OddLogLine ==
    <<"0", "1", "0", "2", "0">>

\* "Datum und Zeit gestellt": settime, line 111
TimeSet ==
    <<"D", "a", "t", "u", "m", " ", "u", "n", "d", " ", "Z", "e", "i", "t",
      " ", "g", "e", "s", "t", "e", "l", "l", "t">>
\* "B0 07 0102": the second line of a configuration transfer, three
\* hexadecimal fields
ConfigFirstLine ==
    <<"B", "0", " ", "0", "7", " ", "0", "1", "0", "2">>
\* "0A0B": a configuration payload line
ConfigLine ==
    <<"0", "A", "0", "B">>
\* "0A0": a configuration payload line with a digit left over
ConfigOddLine ==
    <<"0", "A", "0">>

\* a frame returned nothing (or nothing has returned yet)
NoValue == [kind |-> "None"]

\* ---------------------------------------------------------------- state
VARIABLES
    \* GSConnection fields
    databuffer,     \* self._databuffer: the queue of complete lines
    linebuffer,     \* self._linebuffer: the pending partial line
    quit,           \* self._quit
    \* self._bufferhasitems: the Condition's lock and its waiters
    lockOwner,      \* "none" | "reader" | "caller"
    waiters,        \* threads blocked in wait() and not yet notified
    \* reader thread (run / _rxdata)
    rpc,            \* position of the reader thread
    pending,        \* datagrams[:-1] not yet appended by the for loop
    \* caller thread (_nextmsg)
    cpc,            \* position of the caller thread
    timeout_end,    \* local of _nextmsg
    result,         \* local of _nextmsg
    now,            \* the clock
    \* history
    stream,         \* every byte the reader has received, in order
    appended,       \* every line appended to the queue, in order
    returned,       \* every line returned by _nextmsg, in order
    pushSeen,       \* a push completed while this call had found the queue
                    \* empty and its deadline was not reached
    nreads,         \* reads that have returned data
    lastChunk,      \* the chunk of the latest _rxdata call
    \* command protocol engine (SpecProto)
    stack,          \* the caller's call stack: one position per frame
    op,             \* the public method called, with its argument
    outcome,        \* "none" | "running" | "returned" | "raised"
    exc,            \* the exception that ended the call, "" if none
    ret,            \* the value the latest finished frame returned
    newmode,        \* switchmode's argument
    expected,       \* _expectresponse's argument string
    buffill,        \* readlog's local
    log,            \* readlog's local
    wire,           \* lines the device has sent and the reader has not
                    \* pushed yet
    writes,         \* what this call has written to self._conn, in order
    pops,           \* what _nextmsg has returned to this call, in order
    erBase,         \* how many of them before the latest _expectresponse
    erOutcome,      \* how the latest _expectresponse ended: "none" |
                    \* "running" | "returned" | "raised"
    linecnt,        \* readconfig's local
    timestamp,      \* settime's argument: <<year, month, day, hour, minute,
                    \* second>>
    command,        \* settime's local: the command string
    wsI,            \* _writeslow's local i: bytes written so far
    sleeps,         \* _writeslow: how many bytes had been written at each
                    \* time.sleep(0.55), in order
    called,         \* a public call had ended before the latest one began
    endMark,        \* how many lines had been appended to the queue when
                    \* the caller's latest call (a command, or close) ended
    \* checksum of one log line (SpecChecksum)
    chkData,        \* the bytes of the line
    chkPhase,       \* "payload" | "sealed" | "flipped"
    chkOk           \* whether readlog's comparison found the line good

\* the variables of the reader and of _nextmsg's steps, but the queue
threadVars == <<linebuffer, quit, lockOwner, waiters, rpc, pending, cpc,
                timeout_end, result, now, stream, appended, returned,
                pushSeen, nreads, lastChunk>>
cmdVars == <<linecnt, timestamp, command, wsI, sleeps, called, endMark>>
protoVars == <<stack, op, outcome, exc, ret, newmode, expected, buffill, log,
               wire, writes, pops, erBase, erOutcome, cmdVars>>
erVars == <<erBase, erOutcome>>
chkVars == <<chkData, chkPhase, chkOk>>

vars == <<databuffer, threadVars, protoVars, chkVars>>

\* ------------------------------------------------------------ line framer
\* index of the first CR LF in s, 0 if there is none
FindCRLF(s) ==
    LET hits == {i \in 1..(Len(s) - 1) : s[i] = CR /\ s[i + 1] = LF}
    IN IF hits = {} THEN 0 ELSE CHOOSE i \in hits : \A j \in hits : i <= j

\* a split at the first terminator only
SplitFirst(s) ==
    LET i == FindCRLF(s)
    IN IF i = 0 THEN <<s>>
       ELSE <<SubSeq(s, 1, i - 1), SubSeq(s, i + 2, Len(s))>>

\* str.split("\r\n"): the fragments between successive, non-overlapping
\* terminators, scanning from the left; always at least one fragment
RECURSIVE Split(_)
Split(s) ==
    LET i == FindCRLF(s)
    IN IF i = 0 THEN <<s>>
       ELSE <<SubSeq(s, 1, i - 1)>> \o Split(SubSeq(s, i + 2, Len(s)))

Front(s) == SubSeq(s, 1, Len(s) - 1)
Last(s) == s[Len(s)]

\* _rxdata, lines 73-76: the new pending buffer and the complete datagrams
RxLinesNoRest(lb, data) ==
    LET datagrams == Split(lb \o data)
    IN [rest |-> <<>>, lines |-> Front(datagrams)]

RxLines(lb, data) ==
    LET datagrams == Split(lb \o data)
    IN [rest |-> Last(datagrams), lines |-> Front(datagrams)]

RECURSIVE SeqsUpTo(_, _)
SeqsUpTo(S, n) ==
    IF n = 0 THEN {<<>>}
    ELSE LET shorter == SeqsUpTo(S, n - 1)
         IN shorter \cup {Append(s, c) : s \in shorter, c \in S}

\* what one self._conn.read(128) returns in Spec: nothing (the read timed
\* out), a partial line, half a terminator, a terminator, or two lines
Chunks == {<<>>, <<"a">>, <<CR>>, <<LF>>, <<CR, LF>>,
           <<"a", CR, LF, CR, LF>>}

\* the timeouts _nextmsg is called with in Spec
Timeouts == {0, 1}

IsPrefix(s, t) == Len(s) <= Len(t) /\ SubSeq(t, 1, Len(s)) = s

\* ---------------------------------------------------------------- parsing
DecChars == {"0", "1", "2", "3", "4", "5", "6", "7", "8", "9"}
HexChars == DecChars \cup {"A", "B", "C", "D", "E", "F",
                           "a", "b", "c", "d", "e", "f"}

\* the value of one digit character, as int(c, 16) gives it
HexVal(c) ==
    CASE c = "0" -> 0 [] c = "1" -> 1 [] c = "2" -> 2 [] c = "3" -> 3
      [] c = "4" -> 4 [] c = "5" -> 5 [] c = "6" -> 6 [] c = "7" -> 7
      [] c = "8" -> 8 [] c = "9" -> 9
      [] c \in {"A", "a"} -> 10 [] c \in {"B", "b"} -> 11
      [] c \in {"C", "c"} -> 12 [] c \in {"D", "d"} -> 13
      [] c \in {"E", "e"} -> 14 [] c \in {"F", "f"} -> 15

\* int(s, base) of a non-empty string of digits of that base
RECURSIVE ParseInt(_, _)
ParseInt(s, base) ==
    IF Len(s) = 0 THEN 0
    ELSE ParseInt(Front(s), base) * base + HexVal(Last(s))

\* the first position from start on that holds no character of class
RunEnd(line, start, class) ==
    CHOOSE j \in start..(Len(line) + 1) :
        /\ j = Len(line) + 1 \/ line[j] \notin class
        /\ \A k \in start..(j - 1) : line[k] \in class

\* line[at] exists and is the character c
CharAt(line, at, c) == at <= Len(line) /\ line[at] = c

\* line[at], line[at + 1] exist and are decimal digits
TwoDigitsAt(line, at) ==
    at + 1 <= Len(line) /\ line[at] \in DecChars /\ line[at + 1] \in DecChars

\* _version_pc_regex, line 32, matched against a whole line:
\*   Version D.DD <decimal> <hex> DD.DD.DD DD:DD:DD
\* with the nine groups of a match
VersionPcMatch(line) ==
    LET decEnd == RunEnd(line, 14, DecChars)
        hexEnd == RunEnd(line, decEnd + 1, HexChars)
        d == hexEnd + 1
        t == d + 9
        ok == /\ Len(line) >= 13
              /\ SubSeq(line, 1, 8) = <<"V", "e", "r", "s", "i", "o", "n", " ">>
              /\ line[9] \in DecChars
              /\ line[10] = "."
              /\ TwoDigitsAt(line, 11)
              /\ line[13] = " "
              /\ decEnd > 14
              /\ CharAt(line, decEnd, " ")
              /\ hexEnd > decEnd + 1
              /\ CharAt(line, hexEnd, " ")
              /\ TwoDigitsAt(line, d) /\ CharAt(line, d + 2, ".")
              /\ TwoDigitsAt(line, d + 3) /\ CharAt(line, d + 5, ".")
              /\ TwoDigitsAt(line, d + 6) /\ CharAt(line, d + 8, " ")
              /\ TwoDigitsAt(line, t) /\ CharAt(line, t + 2, ":")
              /\ TwoDigitsAt(line, t + 3) /\ CharAt(line, t + 5, ":")
              /\ TwoDigitsAt(line, t + 6)
              /\ Len(line) = t + 7
    IN IF ok
       THEN [matched |-> TRUE,
             groups |-> <<SubSeq(line, 9, 12),
                          SubSeq(line, 14, decEnd - 1),
                          SubSeq(line, decEnd + 1, hexEnd - 1),
                          SubSeq(line, d, d + 1),
                          SubSeq(line, d + 3, d + 4),
                          SubSeq(line, d + 6, d + 7),
                          SubSeq(line, t, t + 1),
                          SubSeq(line, t + 3, t + 4),
                          SubSeq(line, t + 6, t + 7)>>]
       ELSE [matched |-> FALSE, groups |-> <<>>]

\* datetime.datetime(year, mon, day, hour, mint, sec) accepts its arguments
DaysInMonth(year, mon) ==
    IF mon = 2
    THEN IF year % 4 = 0 /\ (year % 100 # 0 \/ year % 400 = 0) THEN 29 ELSE 28
    ELSE IF mon \in {4, 6, 9, 11} THEN 30 ELSE 31

ValidDateTime(year, mon, day, hour, mint, sec) ==
    /\ year \in 1..9999
    /\ mon \in 1..12
    /\ day \in 1..DaysInMonth(year, mon)
    /\ hour \in 0..23
    /\ mint \in 0..59
    /\ sec \in 0..59

\* getversion, lines 127-144: what the second datagram makes of the call:
\* a returned dictionary, or the exception raised
VersionNoRaise(versionstr) ==
    LET m == VersionPcMatch(versionstr)
    IN IF versionstr = StandardLine
       THEN [raised |-> "", value |-> [Mode |-> "Standard"]]
       ELSE IF m.matched
       THEN [raised |-> "",
             value |-> [Mode |-> "PC",
                        version |-> m.groups[1],
                        serial |-> ParseInt(m.groups[2], 10),
                        buffill |-> ParseInt(m.groups[3], 16),
                        datetime |-> <<ParseInt(m.groups[6], 10) + 2000,
                                       ParseInt(m.groups[5], 10),
                                       ParseInt(m.groups[4], 10),
                                       ParseInt(m.groups[7], 10),
                                       ParseInt(m.groups[8], 10),
                                       ParseInt(m.groups[9], 10)>>]]
       ELSE [raised |-> "", value |-> [Mode |-> "None"]]

ParseVersion(versionstr) ==
    LET m == VersionPcMatch(versionstr)
        day == ParseInt(m.groups[4], 10)
        mon == ParseInt(m.groups[5], 10)
        year == ParseInt(m.groups[6], 10) + 2000
        hour == ParseInt(m.groups[7], 10)
        mint == ParseInt(m.groups[8], 10)
        sec == ParseInt(m.groups[9], 10)
    IN IF versionstr = StandardLine
       THEN [raised |-> "", value |-> [Mode |-> "Standard"]]
       ELSE IF m.matched
       THEN IF ValidDateTime(year, mon, day, hour, mint, sec)
            THEN [raised |-> "",
                  value |-> [Mode |-> "PC",
                             version |-> m.groups[1],
                             serial |-> ParseInt(m.groups[2], 10),
                             buffill |-> ParseInt(m.groups[3], 16),
                             datetime |-> <<year, mon, day, hour, mint, sec>>]]
            ELSE [raised |-> "ValueError", value |-> [Mode |-> "PC"]]
       ELSE [raised |-> "Exception", value |-> [Mode |-> "None"]]

\* readlog, line 181: the bytes of a line of hex digit pairs
HexDecodable(line) == \A i \in 1..Len(line) : line[i] \in HexChars
HexDecode(line) ==
    [i \in 1..(Len(line) \div 2) |->
        16 * HexVal(line[2 * i - 1]) + HexVal(line[2 * i])]

RECURSIVE Sum(_)
Sum(data) == IF Len(data) = 0 THEN 0 ELSE Sum(Front(data)) + Last(data)

\* _linechecksum without the & 0xff
LineChecksumNoMask(data) == Sum(Front(data))

\* _linechecksum, lines 162-163: sum(data[0 : -1]) & 0xff
LineChecksum(data) == Sum(Front(data)) % 256

\* readlog, line 183: calcchksum != logdata[-1] is False
ChecksumOk(data) == LineChecksum(data) = Last(data)

\* _config_firstline_regex, line 33, matched against a whole line:
\*   <hex> <hex> <hex>
\* with the three groups of a match
ConfigFirstMatch(line) ==
    LET end1 == RunEnd(line, 1, HexChars)
        end2 == RunEnd(line, end1 + 1, HexChars)
        end3 == RunEnd(line, end2 + 1, HexChars)
        ok == /\ end1 > 1
              /\ CharAt(line, end1, " ")
              /\ end2 > end1 + 1
              /\ CharAt(line, end2, " ")
              /\ end3 > end2 + 1
              /\ end3 = Len(line) + 1
    IN IF ok
       THEN [matched |-> TRUE,
             groups |-> <<SubSeq(line, 1, end1 - 1),
                          SubSeq(line, end1 + 1, end2 - 1),
                          SubSeq(line, end2 + 1, Len(line))>>]
       ELSE [matched |-> FALSE, groups |-> <<>>]

\* bytes(log), lines 189 and 221, accepts its argument
IsBytes(data) == \A k \in 1..Len(data) : data[k] \in 0..255

\* the character of one decimal digit
DigitChar(d) ==
    CASE d = 0 -> "0" [] d = 1 -> "1" [] d = 2 -> "2" [] d = 3 -> "3"
      [] d = 4 -> "4" [] d = 5 -> "5" [] d = 6 -> "6" [] d = 7 -> "7"
      [] d = 8 -> "8" [] d = 9 -> "9"

\* "%d" % n for n >= 0
RECURSIVE Dec(_)
Dec(n) ==
    IF n < 10 THEN <<DigitChar(n)>>
    ELSE Append(Dec(n \div 10), DigitChar(n % 10))

\* "%02d" % n: a sign if n is negative, all the digits of n, and zeros on
\* the left up to a width of two
Fmt02d(n) ==
    IF n < 0 THEN <<"-">> \o Dec(0 - n)
    ELSE IF n < 10 THEN <<"0">> \o Dec(n)
    ELSE Dec(n)

\* settime, line 109: the command of a timestamp <<year, month, day, hour,
\* minute, second>>
SetTimeCommand(ts) ==
    <<"t">> \o Fmt02d(ts[3]) \o Fmt02d(ts[2]) \o Fmt02d(ts[1] - 2000)
            \o Fmt02d(ts[4]) \o Fmt02d(ts[5]) \o Fmt02d(ts[6])

\* ------------------------------------------------------- initial state
\* __init__, lines 39-43: empty queue, empty pending buffer, reader started
InitThreads ==
    /\ databuffer = <<>>
    /\ linebuffer = <<>>
    /\ quit = FALSE
    /\ lockOwner = "none"
    /\ waiters = {}
    /\ rpc = "run"
    /\ pending = <<>>
    /\ cpc = "idle"
    /\ timeout_end = 0
    /\ result = None
    /\ now = 0
    /\ stream = <<>>
    /\ appended = <<>>
    /\ returned = <<>>
    /\ pushSeen = FALSE
    /\ nreads = 0
    /\ lastChunk = <<>>

\* no public method has been called
InitProto ==
    /\ stack = <<>>
    /\ op = <<>>
    /\ outcome = "none"
    /\ exc = ""
    /\ ret = NoValue
    /\ newmode = ""
    /\ expected = <<>>
    /\ buffill = 0
    /\ log = <<>>
    /\ wire = <<>>
    /\ writes = <<>>
    /\ pops = <<>>
    /\ erBase = 0
    /\ erOutcome = "none"
    /\ linecnt = 0
    /\ timestamp = <<>>
    /\ command = <<>>
    /\ wsI = 0
    /\ sleeps = <<>>
    /\ called = FALSE
    /\ endMark = 0

InitChk ==
    /\ chkData = <<>>
    /\ chkPhase = "payload"
    /\ chkOk = FALSE

Init == InitThreads /\ InitProto /\ InitChk

\* --------------------------------------------------------- reader thread
\* run, line 90 with the stop flag never looked at
RunCheckNoStop ==
    /\ rpc = "run"
    /\ rpc' = "read"
    /\ UNCHANGED <<databuffer, linebuffer, quit, lockOwner, waiters, pending,
                   cpc, timeout_end, result, now, stream, appended, returned,
                   pushSeen, nreads, lastChunk,
                   protoVars, chkVars>>

\* run, line 90: the stop flag is looked at once per iteration
RunCheck ==
    /\ rpc = "run"
    /\ rpc' = IF quit THEN "exit" ELSE "read"
    /\ UNCHANGED <<databuffer, linebuffer, quit, lockOwner, waiters, pending,
                   cpc, timeout_end, result, now, stream, appended, returned,
                   pushSeen, nreads, lastChunk,
                   protoVars, chkVars>>

\* run, lines 91-93 and _rxdata, lines 73-78: the read returns a chunk; a
\* non-empty one is framed, and complete datagrams are to be pushed
ReadData(chunk) ==
    /\ rpc = "read"
    /\ Len(chunk) > 0 => nreads < MaxReads
    /\ nreads' = IF Len(chunk) > 0 THEN nreads + 1 ELSE nreads
    /\ IF Len(chunk) > 0
       THEN LET r == RxLines(linebuffer, chunk)
            IN /\ linebuffer' = r.rest
               /\ pending' = r.lines
               /\ rpc' = IF Len(r.lines) > 0 THEN "acquire" ELSE "run"
       ELSE /\ rpc' = "run"
            /\ UNCHANGED <<linebuffer, pending>>
    /\ stream' = stream \o chunk
    /\ UNCHANGED <<databuffer, quit, lockOwner, waiters, cpc, timeout_end,
                   result, now, appended, returned, pushSeen, lastChunk,
                   protoVars, chkVars>>

\* _rxdata, line 79, taken without looking at the lock
RxAcquireUnlocked ==
    /\ rpc = "acquire"
    /\ rpc' = "append"
    /\ UNCHANGED <<databuffer, linebuffer, quit, lockOwner, waiters, pending,
                   cpc, timeout_end, result, now, stream, appended, returned,
                   pushSeen, nreads, lastChunk,
                   protoVars, chkVars>>

\* _rxdata, line 79: self._bufferhasitems.acquire()
RxAcquire ==
    /\ rpc = "acquire"
    /\ lockOwner = "none"
    /\ lockOwner' = "reader"
    /\ rpc' = "append"
    /\ UNCHANGED <<databuffer, linebuffer, quit, waiters, pending, cpc,
                   timeout_end, result, now, stream, appended, returned,
                   pushSeen, nreads, lastChunk,
                   protoVars, chkVars>>

\* _rxdata, lines 80-82: one turn of the for loop
RxAppend ==
    /\ rpc = "append"
    /\ IF Len(pending) > 0
       THEN /\ databuffer' = Append(databuffer, Head(pending))
            /\ appended' = Append(appended, Head(pending))
            /\ pending' = Tail(pending)
            /\ rpc' = "append"
       ELSE /\ rpc' = "notify"
            /\ UNCHANGED <<databuffer, appended, pending>>
    /\ UNCHANGED <<linebuffer, quit, lockOwner, waiters, cpc, timeout_end,
                   result, now, stream, returned, pushSeen, nreads, lastChunk,
                   protoVars, chkVars>>

\* _rxdata, line 83 with the notification left out
RxNoNotify ==
    /\ rpc = "notify"
    /\ rpc' = "release"
    /\ UNCHANGED <<databuffer, linebuffer, quit, lockOwner, waiters, pending,
                   cpc, timeout_end, result, now, stream, appended, returned,
                   pushSeen, nreads, lastChunk,
                   protoVars, chkVars>>

\* _rxdata, line 83: self._bufferhasitems.notify_all()
RxNotify ==
    /\ rpc = "notify"
    /\ waiters' = {}
    /\ rpc' = "release"
    /\ UNCHANGED <<databuffer, linebuffer, quit, lockOwner, pending, cpc,
                   timeout_end, result, now, stream, appended, returned,
                   pushSeen, nreads, lastChunk,
                   protoVars, chkVars>>

\* _rxdata, line 84: self._bufferhasitems.release(); the push is complete
RxRelease ==
    /\ rpc = "release"
    /\ lockOwner' = "none"
    /\ rpc' = "run"
    /\ pushSeen' = \/ pushSeen
                    \/ (cpc \in {"wait", "woken"} /\ now < timeout_end)
    /\ UNCHANGED <<databuffer, linebuffer, quit, waiters, pending, cpc,
                   timeout_end, result, now, stream, appended, returned,
                   nreads, lastChunk,
                   protoVars, chkVars>>

\* close, line 87
Close ==
    /\ cpc = "idle"
    /\ ~quit
    /\ quit' = TRUE
    /\ endMark' = Len(appended)
    /\ UNCHANGED <<databuffer, linebuffer, lockOwner, waiters, rpc, pending,
                   cpc, timeout_end, result, now, stream, appended, returned,
                   pushSeen, nreads, lastChunk,
                   stack, op, outcome, exc, ret, newmode, expected, buffill,
                   log, wire, writes, pops, erVars,
                   linecnt, timestamp, command, wsI, sleeps, called,
                   chkVars>>

\* --------------------------------------------------------- caller thread
\* _nextmsg, lines 50-51
NextMsgCall(timeout) ==
    /\ cpc = "idle"
    /\ result' = None
    /\ timeout_end' = now + timeout
    /\ pushSeen' = FALSE
    /\ cpc' = "acquire"
    /\ UNCHANGED <<databuffer, linebuffer, quit, lockOwner, waiters, rpc,
                   pending, now, stream, appended, returned, nreads,
                   lastChunk, protoVars, chkVars>>

\* _nextmsg, line 52: self._bufferhasitems.acquire()
NmAcquire ==
    /\ cpc = "acquire"
    /\ lockOwner = "none"
    /\ lockOwner' = "caller"
    /\ cpc' = "loop"
    /\ UNCHANGED <<databuffer, linebuffer, quit, waiters, rpc, pending,
                   timeout_end, result, now, stream, appended, returned,
                   pushSeen, nreads, lastChunk,
                   protoVars, chkVars>>

\* _nextmsg, line 53 with the wait loop left out
NmLoopNoWait ==
    /\ cpc = "loop"
    /\ cpc' = "pop"
    /\ UNCHANGED <<databuffer, linebuffer, quit, lockOwner, waiters, rpc,
                   pending, timeout_end, result, now, stream, appended,
                   returned, pushSeen, nreads, lastChunk,
                   protoVars, chkVars>>

\* _nextmsg, line 53: the while condition
NmLoop ==
    /\ cpc = "loop"
    /\ cpc' = IF Len(databuffer) = 0 /\ now < timeout_end
              THEN "waitenter" ELSE "pop"
    /\ UNCHANGED <<databuffer, linebuffer, quit, lockOwner, waiters, rpc,
                   pending, timeout_end, result, now, stream, appended,
                   returned, pushSeen, nreads, lastChunk,
                   protoVars, chkVars>>

\* _nextmsg, line 54: wait() gives up the lock and blocks, in one step
NmWait ==
    /\ cpc = "waitenter"
    /\ lockOwner' = "none"
    /\ waiters' = waiters \cup {"caller"}
    /\ cpc' = "wait"
    /\ UNCHANGED <<databuffer, linebuffer, quit, rpc, pending, timeout_end,
                   result, now, stream, appended, returned, pushSeen,
                   nreads, lastChunk,
                   protoVars, chkVars>>

\* _nextmsg, line 54: wait() ends, by a notification or by its timeout
\* (timeout_end - time.time(), not positive if the clock has moved on)
NmWake ==
    /\ cpc = "wait"
    /\ "caller" \notin waiters \/ now >= timeout_end
    /\ waiters' = waiters \ {"caller"}
    /\ cpc' = "woken"
    /\ UNCHANGED <<databuffer, linebuffer, quit, lockOwner, rpc, pending,
                   timeout_end, result, now, stream, appended, returned,
                   pushSeen, nreads, lastChunk,
                   protoVars, chkVars>>

\* _nextmsg, line 54: wait() takes the lock again before it returns
NmReacquire ==
    /\ cpc = "woken"
    /\ lockOwner = "none"
    /\ lockOwner' = "caller"
    /\ cpc' = "loop"
    /\ UNCHANGED <<databuffer, linebuffer, quit, waiters, rpc, pending,
                   timeout_end, result, now, stream, appended, returned,
                   pushSeen, nreads, lastChunk,
                   protoVars, chkVars>>

\* _nextmsg, lines 55-57 returning the head without removing it
NmPopKeep ==
    /\ cpc = "pop"
    /\ result' = IF Len(databuffer) > 0 THEN Some(databuffer[1]) ELSE result
    /\ cpc' = "release"
    /\ UNCHANGED <<databuffer, linebuffer, quit, lockOwner, waiters, rpc,
                   pending, timeout_end, now, stream, appended, returned,
                   pushSeen, nreads, lastChunk,
                   protoVars, chkVars>>

\* _nextmsg, lines 55-57
NmPop ==
    /\ cpc = "pop"
    /\ IF Len(databuffer) > 0
       THEN /\ result' = Some(databuffer[1])
            /\ databuffer' = Tail(databuffer)
       ELSE UNCHANGED <<result, databuffer>>
    /\ cpc' = "release"
    /\ UNCHANGED <<linebuffer, quit, lockOwner, waiters, rpc, pending,
                   timeout_end, now, stream, appended, returned, pushSeen,
                   nreads, lastChunk,
                   protoVars, chkVars>>

\* _nextmsg, line 58 with the release left out
NmReleaseKeep ==
    /\ cpc = "release"
    /\ cpc' = "return"
    /\ UNCHANGED <<databuffer, linebuffer, quit, lockOwner, waiters, rpc,
                   pending, timeout_end, result, now, stream, appended,
                   returned, pushSeen, nreads, lastChunk,
                   protoVars, chkVars>>

\* _nextmsg, line 58: self._bufferhasitems.release()
NmRelease ==
    /\ cpc = "release"
    /\ lockOwner' = "none"
    /\ cpc' = "return"
    /\ UNCHANGED <<databuffer, linebuffer, quit, waiters, rpc, pending,
                   timeout_end, result, now, stream, appended, returned,
                   pushSeen, nreads, lastChunk,
                   protoVars, chkVars>>

\* _nextmsg, line 60: return result
NmReturn ==
    /\ cpc = "return"
    /\ returned' = returned \o result
    /\ cpc' = "idle"
    /\ UNCHANGED <<databuffer, linebuffer, quit, lockOwner, waiters, rpc,
                   pending, timeout_end, result, now, stream, appended,
                   pushSeen, nreads, lastChunk,
                   protoVars, chkVars>>

\* time.time() moves on
Tick ==
    /\ now < MaxTime
    /\ now' = now + 1
    /\ UNCHANGED <<databuffer, linebuffer, quit, lockOwner, waiters, rpc,
                   pending, cpc, timeout_end, result, stream, appended,
                   returned, pushSeen, nreads, lastChunk,
                   protoVars, chkVars>>

Next ==
    \/ RunCheck
    \/ \E chunk \in Chunks : ReadData(chunk)
    \/ RxAcquire
    \/ RxAppend
    \/ RxNotify
    \/ RxRelease
    \/ Close
    \/ \E timeout \in Timeouts : NextMsgCall(timeout)
    \/ NmAcquire
    \/ NmLoop
    \/ NmWait
    \/ NmWake
    \/ NmReacquire
    \/ NmPop
    \/ NmRelease
    \/ NmReturn
    \/ Tick

Spec == Init /\ [][Next]_vars

\* The reader thread is scheduled, every self._conn.read returns, and the
\* lock is granted to a reader that keeps asking for it; the caller does
\* not stop half-way through the lock-holding section of _nextmsg.
ReaderFairness ==
    /\ WF_vars(RunCheck)
    /\ WF_vars(\E chunk \in Chunks : ReadData(chunk))
    /\ SF_vars(RxAcquire)
    /\ WF_vars(RxAppend)
    /\ WF_vars(RxNotify)
    /\ WF_vars(RxRelease)

CallerFairness ==
    /\ WF_vars(NmLoop)
    /\ WF_vars(NmWait)
    /\ WF_vars(NmPop)
    /\ WF_vars(NmRelease)

SpecStop == Init /\ [][Next]_vars /\ ReaderFairness /\ CallerFairness

\* ------------------------------------------------- the framer on its own
\* _rxdata, lines 72-84, run to completion with no other thread about
RxData(chunk) ==
    /\ Len(chunk) > 0
    /\ Len(stream) + Len(chunk) <= MaxStream
    /\ LET r == RxLines(linebuffer, chunk)
       IN /\ linebuffer' = r.rest
          /\ databuffer' = databuffer \o r.lines
          /\ appended' = appended \o r.lines
    /\ stream' = stream \o chunk
    /\ lastChunk' = chunk
    /\ UNCHANGED <<quit, lockOwner, waiters, rpc, pending, cpc, timeout_end,
                   result, now, returned, pushSeen, nreads,
                   protoVars, chkVars>>

FramerNext == \E chunk \in SeqsUpTo(WireChars, MaxStream) : RxData(chunk)

SpecFramer == Init /\ [][FramerNext]_vars

\* ------------------------------------------------ command protocol engine
\* The caller thread alone runs the commands, so only its writes and its
\* _nextmsg calls meet the device and the reader.  _nextmsg is taken as one
\* step here (C4 is its contract, checked on the steps of Spec), and so is
\* the reader's push of a batch of lines.

\* the device's answers to a command: none, an acknowledged status line, or
\* a status line with no or a wrong acknowledgement
StatusReplies ==
    {<<>>,
     <<EmptyLine>>,
     <<StandardLine>>,
     <<EmptyLine, StandardLine>>,
     <<EmptyLine, VersionLine>>,
     <<EmptyLine, VersionBadDate>>,
     <<EmptyLine, GarbageLine>>,
     <<GarbageLine, StandardLine>>,
     <<EmptyLine, PcModeStarted>>,
     <<GarbageLine, PcModeStarted>>,
     <<EmptyLine, PcModeEnded>>,
     <<EmptyLine, LogCleared>>}

\* the device's answers to b: the header and the log lines, or any of the
\* above
LogLines == {GoodLogLine, WrapLogLine, BadLogLine, OddLogLine, EmptyLine}
LogReplies ==
    {<<EmptyLine, ProtocolHeader>> \o body :
        body \in SeqsUpTo(LogLines, MaxLogLines)}

\* the device's answers to c: a boundary line, the line of three fields
\* and payload lines, or any of the above
ConfigReplies ==
    {<<EmptyLine, ConfigFirstLine>>,
     <<EmptyLine, ConfigFirstLine, ConfigLine>>,
     <<EmptyLine, ConfigFirstLine, ConfigOddLine>>,
     <<EmptyLine, ConfigLine, ConfigLine>>}

Replies(string) ==
    IF string = <<"b">> THEN StatusReplies \cup LogReplies
    ELSE IF string = <<"c">> THEN StatusReplies \cup ConfigReplies
    ELSE StatusReplies

\* the device's answers to a time command: none, the acknowledged status
\* line, or an answer that is not the acknowledgement
TimeReplies ==
    {<<>>,
     <<EmptyLine>>,
     <<EmptyLine, TimeSet>>,
     <<GarbageLine, TimeSet>>,
     <<EmptyLine, GarbageLine>>}

\* the device's answers to byte k of n written slowly: it may echo a line
\* at the command letter, and answers once the command is complete
SlowReplies(k, n) ==
    IF k = n THEN TimeReplies
    ELSE IF k = 1 THEN {<<>>, <<EmptyLine>>}
    ELSE {<<>>}

\* the timestamps settime is called with, <<year, month, day, hour,
\* minute, second>>, and an argument that is no datetime
NoTimestamp == <<>>
Timestamps ==
    {<<2021, 3, 15, 10, 30, 0>>,
     <<2000, 1, 1, 0, 0, 0>>,
     <<2099, 12, 31, 23, 59, 59>>,
     <<1999, 12, 31, 23, 59, 59>>,
     <<2100, 1, 1, 0, 0, 0>>}

\* lines left in the queue by what went before: an answer nobody read, or
\* the device's own output in standard mode
StrayLines == {EmptyLine, StandardLine}

\* the public methods the caller may call, with their arguments
PublicCalls ==
    {<<"getversion">>, <<"switchmode", "Standard">>, <<"switchmode", "PC">>,
     <<"switchmode", "Other">>, <<"readlog">>, <<"clearlog">>,
     <<"devicereset">>, <<"readconfig">>, <<"settime">>, <<"synctime">>}

\* the first position of a public method
StartOf(call) ==
    CASE call[1] = "getversion" -> "gv:write"
      [] call[1] = "switchmode" -> "sw:start"
      [] call[1] = "readlog" -> "rl:start"
      [] call[1] = "clearlog" -> "cl:start"
      [] call[1] = "devicereset" -> "dr:start"
      [] call[1] = "readconfig" -> "rc:start"
      [] call[1] = "settime" -> "st:start"
      [] call[1] = "synctime" -> "sy:start"

Top == IF Len(stack) = 0 THEN "" ELSE Last(stack)

\* _nextmsg as one step: the oldest line, or None once the timeout has
\* passed over an empty queue
NmTake == IF Len(databuffer) > 0 THEN Some(Head(databuffer)) ELSE None
NmLeave == IF Len(databuffer) > 0 THEN Tail(databuffer) ELSE databuffer
NextMsg ==
    /\ pops' = Append(pops, NmTake)
    /\ databuffer' = NmLeave

\* _write, lines 95-97; the device may answer what it likes
Write(string) ==
    /\ writes' = Append(writes, string)
    /\ \E reply \in Replies(string) : wire' = wire \o reply

\* a frame returns value to its caller
Return(value) ==
    /\ stack' = Front(stack)
    /\ ret' = value
    /\ outcome' = IF Len(stack) = 1 THEN "returned" ELSE outcome
    /\ exc' = exc

\* a frame raises; nothing in the class catches, so every frame is left
Raise(kind) ==
    /\ stack' = <<>>
    /\ exc' = kind
    /\ outcome' = "raised"
    /\ ret' = ret

\* the frame goes on at position label
Goto(label) ==
    /\ stack' = Append(Front(stack), label)
    /\ UNCHANGED <<exc, outcome, ret>>

\* the frame calls: it will go on at label, the callee starts at entry
Invoke(label, entry) ==
    /\ stack' = Front(stack) \o <<label, entry>>
    /\ UNCHANGED <<exc, outcome, ret>>

\* a public method is entered: its frame, its arguments and the history of
\* the call
StartCall(call) ==
    /\ op' = call
    /\ stack' = <<StartOf(call)>>
    /\ outcome' = "running"
    /\ exc' = ""
    /\ ret' = NoValue
    /\ newmode' = IF call[1] = "switchmode" THEN call[2] ELSE ""
    /\ expected' = <<>>
    /\ buffill' = 0
    /\ log' = <<>>
    /\ writes' = <<>>
    /\ pops' = <<>>
    /\ erBase' = 0
    /\ erOutcome' = "none"
    /\ linecnt' = 0
    /\ IF call[1] = "settime"
       THEN timestamp' \in Timestamps \cup {NoTimestamp}
       ELSE timestamp' = NoTimestamp
    /\ command' = <<>>
    /\ wsI' = 0
    /\ sleeps' = <<>>
    /\ called' = (outcome # "none")
    /\ UNCHANGED <<databuffer, wire, endMark, threadVars, chkVars>>

\* the caller calls a public method
CallPublic(call) ==
    /\ outcome = "none"
    /\ StartCall(call)

\* run, lines 89-93 with _rxdata: the reader pushes a line that no command
\* of this call has asked for
Stray(line) ==
    /\ outcome = "none"
    /\ Len(databuffer) < MaxStray
    /\ databuffer' = Append(databuffer, line)
    /\ UNCHANGED <<protoVars, threadVars, chkVars>>

\* run, lines 89-93 with _rxdata: the reader pushes the next lines received
Deliver(k) ==
    /\ k \in 1..Len(wire)
    /\ databuffer' = databuffer \o SubSeq(wire, 1, k)
    /\ wire' = SubSeq(wire, k + 1, Len(wire))
    /\ UNCHANGED <<stack, op, outcome, exc, ret, newmode, expected, buffill,
                   log, writes, pops, threadVars, chkVars, erVars, cmdVars>>

\* getversion, line 117
GvWrite ==
    /\ Top = "gv:write"
    /\ Write(<<"v">>)
    /\ Goto("gv:pop1")
    /\ UNCHANGED <<databuffer, op, newmode, expected, buffill, log, pops,
                   threadVars, chkVars, erVars, cmdVars>>

\* getversion, lines 118-120
GvPop1 ==
    /\ Top = "gv:pop1"
    /\ NextMsg
    /\ IF NmTake = None THEN Raise("Exception") ELSE Goto("gv:pop2")
    /\ UNCHANGED <<op, newmode, expected, buffill, log, wire, writes,
                   threadVars, chkVars, erVars, cmdVars>>

\* getversion, lines 122-144
GvPop2 ==
    /\ Top = "gv:pop2"
    /\ NextMsg
    /\ IF NmTake = None
       THEN Raise("Exception")
       ELSE LET parsed == ParseVersion(NmTake[1])
            IN IF parsed.raised # ""
               THEN Raise(parsed.raised)
               ELSE Return(parsed.value)
    /\ UNCHANGED <<op, newmode, expected, buffill, log, wire, writes,
                   threadVars, chkVars, erVars, cmdVars>>

\* switchmode, lines 147-148 with the assertion left out
SwStartNoAssert ==
    /\ Top = "sw:start"
    /\ Invoke("sw:mode", "gv:write")
    /\ UNCHANGED <<databuffer, op, newmode, expected, buffill, log, wire,
                   writes, pops, threadVars, chkVars, erVars, cmdVars>>

\* switchmode, lines 147-148
SwStart ==
    /\ Top = "sw:start"
    /\ IF newmode \notin {"Standard", "PC"}
       THEN Raise("AssertionError")
       ELSE Invoke("sw:mode", "gv:write")
    /\ UNCHANGED <<databuffer, op, newmode, expected, buffill, log, wire,
                   writes, pops, threadVars, chkVars, erVars, cmdVars>>

\* switchmode, lines 148-160 with every mode taken for another one
SwModeAlways ==
    /\ Top = "sw:mode"
    /\ IF newmode = "Standard"
       THEN /\ Write(<<"X">>)
            /\ expected' = PcModeEnded
       ELSE /\ Write(<<"P">>)
            /\ expected' = PcModeStarted
    /\ Invoke("sw:done", "er:pop1")
    /\ erBase' = Len(pops)
    /\ erOutcome' = "running"
    /\ UNCHANGED <<databuffer, op, newmode, buffill, log, pops,
                   threadVars, chkVars, cmdVars>>

\* switchmode, lines 148-160: the mode reported decides
SwMode ==
    /\ Top = "sw:mode"
    /\ IF ret.Mode = newmode
       THEN /\ Return(NoValue)
            /\ UNCHANGED <<writes, wire, expected, erVars>>
       ELSE /\ IF newmode = "Standard"
               THEN /\ Write(<<"X">>)
                    /\ expected' = PcModeEnded
               ELSE /\ Write(<<"P">>)
                    /\ expected' = PcModeStarted
            /\ Invoke("sw:done", "er:pop1")
            /\ erBase' = Len(pops)
            /\ erOutcome' = "running"
    /\ UNCHANGED <<databuffer, op, newmode, buffill, log, pops,
                   threadVars, chkVars, cmdVars>>

\* switchmode, lines 156 and 160: _expectresponse has returned
SwDone ==
    /\ Top = "sw:done"
    /\ Return(NoValue)
    /\ UNCHANGED <<databuffer, op, newmode, expected, buffill, log, wire,
                   writes, pops, threadVars, chkVars, erVars, cmdVars>>

\* _expectresponse, lines 64-66 accepting any first datagram but a timeout
ErPop1AnyLine ==
    /\ Top = "er:pop1"
    /\ NextMsg
    /\ IF NmTake = None THEN Raise("Exception") ELSE Goto("er:pop2")
    /\ erOutcome' = IF NmTake = None THEN "raised" ELSE erOutcome
    /\ UNCHANGED <<op, newmode, expected, buffill, log, wire, writes, erBase,
                   threadVars, chkVars, cmdVars>>

\* _expectresponse, lines 64-66
ErPop1 ==
    /\ Top = "er:pop1"
    /\ NextMsg
    /\ IF NmTake # Some(EmptyLine) THEN Raise("Exception") ELSE Goto("er:pop2")
    /\ erOutcome' = IF NmTake # Some(EmptyLine) THEN "raised" ELSE erOutcome
    /\ UNCHANGED <<op, newmode, expected, buffill, log, wire, writes, erBase,
                   threadVars, chkVars, cmdVars>>

\* _expectresponse, lines 68-70
ErPop2 ==
    /\ Top = "er:pop2"
    /\ NextMsg
    /\ IF NmTake # Some(expected) THEN Raise("Exception") ELSE Return(NoValue)
    /\ erOutcome' = IF NmTake # Some(expected) THEN "raised" ELSE "returned"
    /\ UNCHANGED <<op, newmode, expected, buffill, log, wire, writes, erBase,
                   threadVars, chkVars, cmdVars>>

\* readlog, line 166
RlStart ==
    /\ Top = "rl:start"
    /\ newmode' = "PC"
    /\ Invoke("rl:switched", "sw:start")
    /\ UNCHANGED <<databuffer, op, expected, buffill, log, wire, writes, pops,
                   threadVars, chkVars, erVars, cmdVars>>

\* readlog, line 167: the call of getversion
RlSwitched ==
    /\ Top = "rl:switched"
    /\ Invoke("rl:version", "gv:write")
    /\ UNCHANGED <<databuffer, op, newmode, expected, buffill, log, wire,
                   writes, pops, threadVars, chkVars, erVars, cmdVars>>

\* readlog, lines 167-169 with the _expectresponse of line 169 left out
RlVersionNoHeader ==
    /\ Top = "rl:version"
    /\ IF "buffill" \notin DOMAIN ret
       THEN /\ Raise("KeyError")
            /\ UNCHANGED <<buffill, writes, wire>>
       ELSE /\ buffill' = ret.buffill
            /\ Write(<<"b">>)
            /\ Goto("rl:loop")
    /\ UNCHANGED <<databuffer, op, newmode, expected, log, pops, threadVars,
                   chkVars, erVars, cmdVars>>

\* readlog, lines 167-169: ["buffill"] of the version, then the command
RlVersion ==
    /\ Top = "rl:version"
    /\ IF "buffill" \notin DOMAIN ret
       THEN /\ Raise("KeyError")
            /\ UNCHANGED <<buffill, writes, wire, expected, erVars>>
       ELSE /\ buffill' = ret.buffill
            /\ Write(<<"b">>)
            /\ expected' = ProtocolHeader
            /\ Invoke("rl:loop", "er:pop1")
            /\ erBase' = Len(pops)
            /\ erOutcome' = "running"
    /\ UNCHANGED <<databuffer, op, newmode, log, pops, threadVars,
                   chkVars, cmdVars>>

\* readlog, lines 173-189: one turn of the loop.  linecnt is counted and
\* never read.  The print of line 185 has three conversions and two
\* arguments: the % raises TypeError.
RlLoop ==
    /\ Top = "rl:loop"
    /\ NextMsg
    /\ IF NmTake = None
       THEN /\ Return([kind |-> "log", buffill |-> buffill, data |-> log])
            /\ log' = log
       ELSE LET nextmsg == NmTake[1]
                logdata == HexDecode(nextmsg)
            IN IF Len(nextmsg) % 2 # 0
               THEN Raise("Exception") /\ log' = log
               ELSE IF ~HexDecodable(nextmsg)
               THEN Raise("ValueError") /\ log' = log
               ELSE IF Len(logdata) = 0
               THEN Raise("IndexError") /\ log' = log
               ELSE IF ~ChecksumOk(logdata)
               THEN Raise("TypeError") /\ log' = log
               ELSE /\ log' = log \o Front(logdata)
                    /\ Goto("rl:loop")
    /\ UNCHANGED <<op, newmode, expected, buffill, wire, writes,
                   threadVars, chkVars, erVars, cmdVars>>

\* clearlog, line 192
ClStart ==
    /\ Top = "cl:start"
    /\ newmode' = "PC"
    /\ Invoke("cl:switched", "sw:start")
    /\ UNCHANGED <<databuffer, op, expected, buffill, log, wire, writes, pops,
                   threadVars, chkVars, erVars, cmdVars>>

\* clearlog, lines 193-194
ClSwitched ==
    /\ Top = "cl:switched"
    /\ Write(<<"z">>)
    /\ expected' = LogCleared
    /\ Invoke("cl:done", "er:pop1")
    /\ erBase' = Len(pops)
    /\ erOutcome' = "running"
    /\ UNCHANGED <<databuffer, op, newmode, buffill, log, pops,
                   threadVars, chkVars, cmdVars>>

\* clearlog, line 194, ending PC mode once the log is cleared
ClDoneLeave ==
    /\ Top = "cl:done"
    /\ Write(<<"X">>)
    /\ Return(NoValue)
    /\ UNCHANGED <<databuffer, op, newmode, expected, buffill, log, pops,
                   threadVars, chkVars, erVars, cmdVars>>

\* clearlog, line 194: _expectresponse has returned
ClDone ==
    /\ Top = "cl:done"
    /\ Return(NoValue)
    /\ UNCHANGED <<databuffer, op, newmode, expected, buffill, log, wire,
                   writes, pops, threadVars, chkVars, erVars, cmdVars>>

\* devicereset, line 197
DrStart ==
    /\ Top = "dr:start"
    /\ newmode' = "PC"
    /\ Invoke("dr:switched", "sw:start")
    /\ UNCHANGED <<databuffer, op, expected, buffill, log, wire, writes, pops,
                   threadVars, chkVars, erVars, cmdVars>>

\* devicereset, line 198
DrSwitched ==
    /\ Top = "dr:switched"
    /\ Write(<<"i">>)
    /\ Return(NoValue)
    /\ UNCHANGED <<databuffer, op, newmode, expected, buffill, log, pops,
                   threadVars, chkVars, erVars, cmdVars>>

\* readconfig, line 201 with the call of switchmode left out
RcStartNoSwitch ==
    /\ Top = "rc:start"
    /\ newmode' = "PC"
    /\ Goto("rc:switched")
    /\ UNCHANGED <<databuffer, op, expected, buffill, log, wire, writes, pops,
                   threadVars, chkVars, erVars, cmdVars>>

\* readconfig, line 201
RcStart ==
    /\ Top = "rc:start"
    /\ newmode' = "PC"
    /\ Invoke("rc:switched", "sw:start")
    /\ UNCHANGED <<databuffer, op, expected, buffill, log, wire, writes, pops,
                   threadVars, chkVars, erVars, cmdVars>>

\* readconfig, lines 202-205
RcSwitched ==
    /\ Top = "rc:switched"
    /\ Write(<<"c">>)
    /\ linecnt' = 0
    /\ log' = <<>>
    /\ Goto("rc:loop")
    /\ UNCHANGED <<databuffer, op, newmode, expected, buffill, pops,
                   timestamp, command, wsI, sleeps, called, endMark,
                   threadVars, chkVars, erVars>>

\* readconfig, lines 206-221: one turn of the loop
RcLoop ==
    /\ Top = "rc:loop"
    /\ linecnt' = linecnt + 1
    /\ NextMsg
    /\ IF NmTake = None
       THEN /\ IF IsBytes(log)
               THEN Return([kind |-> "config", data |-> log])
               ELSE Raise("ValueError")
            /\ log' = log
       ELSE LET m == ConfigFirstMatch(NmTake[1])
                head == IF linecnt' = 2
                        THEN <<ParseInt(m.groups[1], 16),
                               ParseInt(m.groups[2], 16)>>
                        ELSE <<>>
                nextmsg == IF linecnt' = 2 THEN m.groups[3] ELSE NmTake[1]
                pairs == SubSeq(nextmsg, 1, 2 * (Len(nextmsg) \div 2))
            IN IF linecnt' = 2 /\ ~m.matched
               THEN Raise("Exception") /\ log' = log
               ELSE IF linecnt' >= 2 /\ ~HexDecodable(pairs)
               THEN Raise("ValueError") /\ log' = log
               ELSE /\ log' = IF linecnt' >= 2
                              THEN log \o head \o HexDecode(nextmsg)
                              ELSE log
                    /\ Goto("rc:loop")
    /\ UNCHANGED <<op, newmode, expected, buffill, wire, writes,
                   timestamp, command, wsI, sleeps, called, endMark,
                   threadVars, chkVars, erVars>>

\* settime, lines 108-110
StStart ==
    /\ Top = "st:start"
    /\ IF timestamp = NoTimestamp
       THEN Raise("AssertionError") /\ UNCHANGED <<command, wsI>>
       ELSE /\ command' = SetTimeCommand(timestamp)
            /\ wsI' = 0
            /\ Invoke("st:slow", "ws:write")
    /\ UNCHANGED <<databuffer, op, newmode, expected, buffill, log, wire,
                   writes, pops, linecnt, timestamp, sleeps, called, endMark,
                   threadVars, chkVars, erVars>>

\* _writeslow, lines 102-104: the loop test and the write of one byte
WsWrite ==
    /\ Top = "ws:write"
    /\ IF wsI < Len(command)
       THEN /\ writes' = Append(writes, <<command[wsI + 1]>>)
            /\ \E reply \in SlowReplies(wsI + 1, Len(command)) :
                  wire' = wire \o reply
            /\ Goto("ws:sleep")
       ELSE /\ Return(NoValue)
            /\ UNCHANGED <<writes, wire>>
    /\ UNCHANGED <<databuffer, op, newmode, expected, buffill, log, pops,
                   threadVars, chkVars, erVars, cmdVars>>

\* _writeslow, line 105 with the sleep left out
WsNoSleep ==
    /\ Top = "ws:sleep"
    /\ wsI' = wsI + 1
    /\ Goto("ws:write")
    /\ UNCHANGED <<databuffer, op, newmode, expected, buffill, log, wire,
                   writes, pops, linecnt, timestamp, command, sleeps, called,
                   endMark, threadVars, chkVars, erVars>>

\* _writeslow, line 105: time.sleep(0.55), and the next turn of the loop
WsSleep ==
    /\ Top = "ws:sleep"
    /\ sleeps' = Append(sleeps, wsI + 1)
    /\ wsI' = wsI + 1
    /\ Goto("ws:write")
    /\ UNCHANGED <<databuffer, op, newmode, expected, buffill, log, wire,
                   writes, pops, linecnt, timestamp, command, called, endMark,
                   threadVars, chkVars, erVars>>

\* settime, line 111
StSlow ==
    /\ Top = "st:slow"
    /\ expected' = TimeSet
    /\ Invoke("st:done", "er:pop1")
    /\ erBase' = Len(pops)
    /\ erOutcome' = "running"
    /\ UNCHANGED <<databuffer, op, newmode, buffill, log, wire, writes, pops,
                   threadVars, chkVars, cmdVars>>

\* settime, line 111: _expectresponse has returned
StDone ==
    /\ Top = "st:done"
    /\ Return(NoValue)
    /\ UNCHANGED <<databuffer, op, newmode, expected, buffill, log, wire,
                   writes, pops, threadVars, chkVars, erVars, cmdVars>>

\* synctime, line 114: datetime.datetime.now() and the call of settime
SyStart ==
    /\ Top = "sy:start"
    /\ timestamp' \in Timestamps
    /\ Invoke("sy:done", "st:start")
    /\ UNCHANGED <<databuffer, op, newmode, expected, buffill, log, wire,
                   writes, pops, linecnt, command, wsI, sleeps, called,
                   endMark, threadVars, chkVars, erVars>>

\* synctime, line 114: settime has returned
SyDone ==
    /\ Top = "sy:done"
    /\ Return(NoValue)
    /\ UNCHANGED <<databuffer, op, newmode, expected, buffill, log, wire,
                   writes, pops, threadVars, chkVars, erVars, cmdVars>>

ProtoNext ==
    \/ \E line \in StrayLines : Stray(line)
    \/ \E call \in PublicCalls : CallPublic(call)
    \/ \E k \in 1..(3 + MaxLogLines) : Deliver(k)
    \/ GvWrite
    \/ GvPop1
    \/ GvPop2
    \/ SwStart
    \/ SwMode
    \/ SwDone
    \/ ErPop1
    \/ ErPop2
    \/ RlStart
    \/ RlSwitched
    \/ RlVersion
    \/ RlLoop
    \/ ClStart
    \/ ClSwitched
    \/ ClDone
    \/ DrStart
    \/ DrSwitched
    \/ RcStart
    \/ RcSwitched
    \/ RcLoop
    \/ StStart
    \/ WsWrite
    \/ WsSleep
    \/ StSlow
    \/ StDone
    \/ SyStart
    \/ SyDone

SpecProto == Init /\ [][ProtoNext]_vars

\* ------------------------------------------------- sequences of commands
\* the caller calls a public method after another has returned or raised;
\* what the earlier calls left unread stays in the queue and on the wire
CallAgain(call) ==
    /\ outcome \in {"returned", "raised"}
    /\ Len(databuffer) + Len(wire) < MaxStray
    /\ StartCall(call)

CallsNext ==
    \/ ProtoNext
    \/ \E call \in PublicCalls : CallAgain(call)

SpecCalls == Init /\ [][CallsNext]_vars

\* ------------------------------------- a command over the queue's steps
\* _expectresponse with each of its two _nextmsg calls taken step by step
\* against the reader; before and after it the caller calls _nextmsg
\* directly.

\* the strings _expectresponse is called with here: a line the transport
\* of Spec can deliver
ExpectedStrings == {<<"a">>}

\* the command ends: nothing in the class catches, every frame is left
XrEnd(how, kind) ==
    /\ stack' = <<>>
    /\ outcome' = how
    /\ exc' = kind
    /\ endMark' = Len(appended)

\* _expectresponse, lines 62-63
ExpectCall(string) ==
    /\ cpc = "idle"
    /\ stack = <<>>
    /\ op' = <<"_expectresponse">>
    /\ expected' = string
    /\ stack' = <<"xr:call1">>
    /\ outcome' = "running"
    /\ exc' = ""
    /\ UNCHANGED <<databuffer, threadVars, chkVars, ret, newmode, buffill,
                   log, wire, writes, pops, erVars, cmdVars>>

\* _expectresponse, lines 64 and 68: self._nextmsg(timeout) begins, with
\* lines 50-51 of _nextmsg
XrNextMsg(label, timeout, next) ==
    /\ Top = label
    /\ cpc = "idle"
    /\ result' = None
    /\ timeout_end' = now + timeout
    /\ pushSeen' = FALSE
    /\ cpc' = "acquire"
    /\ stack' = <<next>>
    /\ UNCHANGED <<databuffer, linebuffer, quit, lockOwner, waiters, rpc,
                   pending, now, stream, appended, returned, nreads,
                   lastChunk, op, outcome, exc, ret, newmode, expected,
                   buffill, log, wire, writes, pops, erVars, cmdVars,
                   chkVars>>

XrCall1 == XrNextMsg("xr:call1", 1, "xr:check1")

\* _expectresponse, lines 65-66: _nextmsg has returned datagram
XrCheck1 ==
    /\ Top = "xr:check1"
    /\ cpc = "idle"
    /\ IF result # Some(EmptyLine)
       THEN XrEnd("raised", "Exception")
       ELSE /\ stack' = <<"xr:call2">>
            /\ UNCHANGED <<outcome, exc, endMark>>
    /\ UNCHANGED <<databuffer, threadVars, chkVars, op, ret, newmode,
                   expected, buffill, log, wire, writes, pops, erVars,
                   linecnt, timestamp, command, wsI, sleeps, called>>

XrCall2 == XrNextMsg("xr:call2", 1, "xr:check2")

\* _expectresponse, lines 69-70
XrCheck2 ==
    /\ Top = "xr:check2"
    /\ cpc = "idle"
    /\ IF result # Some(expected)
       THEN XrEnd("raised", "Exception")
       ELSE XrEnd("returned", "")
    /\ UNCHANGED <<databuffer, threadVars, chkVars, op, ret, newmode,
                   expected, buffill, log, wire, writes, pops, erVars,
                   linecnt, timestamp, command, wsI, sleeps, called>>

\* the caller calls _nextmsg outside any command
LaterNextMsg(timeout) ==
    /\ stack = <<>>
    /\ NextMsgCall(timeout)

QueueNext ==
    \/ RunCheck
    \/ \E chunk \in Chunks : ReadData(chunk)
    \/ RxAcquire
    \/ RxAppend
    \/ RxNotify
    \/ RxRelease
    \/ \E string \in ExpectedStrings : ExpectCall(string)
    \/ XrCall1
    \/ XrCheck1
    \/ XrCall2
    \/ XrCheck2
    \/ \E timeout \in Timeouts : LaterNextMsg(timeout)
    \/ NmAcquire
    \/ NmLoop
    \/ NmWait
    \/ NmWake
    \/ NmReacquire
    \/ NmPop
    \/ NmRelease
    \/ NmReturn
    \/ Tick

SpecQueue == Init /\ [][QueueNext]_vars

\* ------------------------------------------------- checksum of a log line
\* the byte values payloads are drawn from
ByteVals == {0, 1, 2, 127, 128, 129, 254, 255}

\* the byte x with bit k flipped
FlipBit(x, k) ==
    IF (x \div (2 ^ k)) % 2 = 1 THEN x - 2 ^ k ELSE x + 2 ^ k

ChkInit ==
    /\ InitThreads
    /\ InitProto
    /\ chkData \in SeqsUpTo(ByteVals, MaxPayload)
    /\ chkPhase = "payload"
    /\ chkOk = FALSE

\* the device ends the payload with sum(payload) mod 256; readlog, lines
\* 182-183, compares
Seal ==
    /\ chkPhase = "payload"
    /\ chkData' = Append(chkData, Sum(chkData) % 256)
    /\ chkOk' = ChecksumOk(chkData')
    /\ chkPhase' = "sealed"
    /\ UNCHANGED <<databuffer, threadVars, protoVars>>

\* one bit of one payload byte is flipped on the way; readlog, lines
\* 182-183, compares
Flip(i, k) ==
    /\ chkPhase = "sealed"
    /\ i \in 1..(Len(chkData) - 1)
    /\ chkData' = [chkData EXCEPT ![i] = FlipBit(@, k)]
    /\ chkOk' = ChecksumOk(chkData')
    /\ chkPhase' = "flipped"
    /\ UNCHANGED <<databuffer, threadVars, protoVars>>

ChkNext ==
    \/ Seal
    \/ \E i \in 1..MaxPayload + 1, k \in 0..7 : Flip(i, k)

SpecChecksum == ChkInit /\ [][ChkNext]_vars

\* ================================================================ claims

\* what _nextmsg holds between taking a line and returning it
InHand == IF cpc \in {"release", "return"} THEN result ELSE None

\* C1: the lines returned by _nextmsg are at all times a prefix of the lines
\* appended to the queue, and returned lines, the line being returned and
\* the queued lines together are exactly the appended lines in append
\* order: nothing is returned twice, skipped or reordered.
C1_FifoOrder ==
    /\ IsPrefix(returned, appended)
    /\ returned \o InHand \o databuffer = appended

\* three lines, not all alike, from two pushes have been returned in order
C1_Witness ==
    /\ Len(returned) = 3
    /\ returned[1] # returned[2]
    /\ nreads = 2

\* C2: a call of _nextmsg during which a push completed before the deadline,
\* after the call had found the queue empty, returns a line and not None;
\* and a caller blocked in wait() that has not been notified never faces a
\* non-empty queue once the reader has let go of the lock.
C2_NoLostWakeup ==
    /\ (cpc = "return" /\ pushSeen) => result # None
    /\ (cpc = "wait" /\ "caller" \in waiters /\ lockOwner # "reader")
           => Len(databuffer) = 0

\* the caller waited, was woken by a push and returns its line before the
\* deadline
C2_Witness ==
    /\ cpc = "return"
    /\ pushSeen
    /\ result # None
    /\ now < timeout_end

\* positions at which a thread reads or modifies _databuffer
ReaderInQueue == rpc \in {"append", "notify", "release"}
CallerInQueue == cpc \in {"loop", "waitenter", "pop", "release"}

\* C3: the reader and the caller are never both inside a section that reads
\* or modifies _databuffer, each is inside only while it owns the lock, and
\* while the caller is inside the reader's batch is either wholly appended
\* or not appended at all.
C3_MutualExclusion ==
    /\ ~(ReaderInQueue /\ CallerInQueue)
    /\ ReaderInQueue => lockOwner = "reader"
    /\ CallerInQueue => lockOwner = "caller"
    /\ CallerInQueue => (Len(pending) = 0 \/ rpc = "acquire")

\* the first of a batch of two lines is appended, the second is not, and
\* the caller stands at acquire()
C3_Witness ==
    /\ rpc = "append"
    /\ nreads = 1
    /\ Len(pending) = 1
    /\ Len(databuffer) = 1
    /\ cpc = "acquire"

\* C4: _nextmsg decides its result in one examination under the lock: with
\* a non-empty queue it takes the oldest line and leaves the rest as it
\* was, also after the deadline; with an empty queue it takes None, leaves
\* the queue alone, and the deadline has been reached.  No other step of
\* the call touches the queue or the result.
C4_NextMsgResult ==
    [][/\ (cpc = "pop" /\ cpc' = "release") =>
             IF Len(databuffer) > 0
             THEN /\ result' = Some(Head(databuffer))
                  /\ databuffer' = Tail(databuffer)
             ELSE /\ result' = None
                  /\ databuffer' = databuffer
                  /\ now >= timeout_end
       /\ (cpc' # cpc /\ cpc # "pop") => databuffer' = databuffer
       /\ (cpc' # cpc /\ cpc \notin {"pop", "idle"}) => result' = result
      ]_vars

\* a line is taken after the deadline, and a second line stays queued
C4_Witness ==
    /\ cpc = "release"
    /\ result # None
    /\ now >= timeout_end
    /\ Len(databuffer) > 0

\* C5: however the stream was cut into chunks, the queued lines and the
\* pending partial line are those of one _rxdata call on the whole stream.
C5_ChunkIndependence ==
    LET whole == RxLines(<<>>, stream)
    IN /\ databuffer = whole.lines
       /\ linebuffer = whole.rest

\* the latest chunk began with the LF of a terminator whose CR ended the
\* chunk before it, and an empty fragment lies between two terminators
C5_Witness ==
    /\ Len(lastChunk) < Len(stream)
    /\ lastChunk[1] = LF
    /\ stream[Len(stream) - Len(lastChunk)] = CR
    /\ Len(databuffer) = 2
    /\ databuffer[2] = <<>>
    /\ Len(linebuffer) > 0

\* the line readlog's loop is about to take has an even number of hex
\* digits, at least two, and its checksum does not match
MismatchAhead ==
    /\ Top = "rl:loop"
    /\ NmTake # None
    /\ Len(NmTake[1]) % 2 = 0
    /\ Len(NmTake[1]) >= 2
    /\ HexDecodable(NmTake[1])
    /\ ~ChecksumOk(HexDecode(NmTake[1]))

\* C6: when readlog takes a line whose checksum does not match, it does not
\* raise, appends the line's payload (all bytes but the last) to the log
\* and goes on popping.
C6_MismatchNonFatal ==
    [][MismatchAhead =>
          /\ outcome' = "running"
          /\ exc' = ""
          /\ log' = log \o Front(HexDecode(NmTake[1]))
          /\ Top' = "rl:loop"
      ]_vars

\* C7: a payload followed by sum(payload) mod 256 passes readlog's
\* comparison, and the same line with one payload bit flipped fails it.
C7_ChecksumRoundTrip ==
    /\ chkPhase = "sealed" => chkOk
    /\ chkPhase = "flipped" => ~chkOk

\* a two-byte payload whose sum exceeds 255 was sealed, then a bit flipped
C7_Witness ==
    /\ chkPhase = "flipped"
    /\ Len(chkData) = 3
    /\ chkData[3] = 1
    /\ chkData[2] = 2
    /\ ~chkOk

\* the mode the version reply of a switchmode call reports
ReportedMode ==
    IF Len(pops) >= 2 /\ pops[2] # None
    THEN ParseVersion(pops[2][1]).value.Mode
    ELSE "None"

\* a call of switchmode has returned and the mode reported was the target
SwitchNoOp ==
    /\ op # <<>>
    /\ op[1] = "switchmode"
    /\ outcome = "returned"
    /\ ReportedMode = newmode

\* C8 as stated: when the current mode equals the target, switchmode writes
\* nothing and pops nothing.
C8_Original == SwitchNoOp => (writes = <<>> /\ pops = <<>>)

\* C8 as amended: when the mode the version reply reports equals the
\* target, switchmode has written only the v of its version query and
\* popped only the two lines of the version reply: no X, no P, no wait for
\* an acknowledgement.
C8_NoSwitchCommand == SwitchNoOp => (writes = <<<<"v">>>> /\ Len(pops) = 2)

\* switchmode("PC") has returned on a PC-mode version reply
C8_Witness ==
    /\ SwitchNoOp
    /\ newmode = "PC"
    /\ pops[2] = Some(VersionLine)

\* the lines the latest _expectresponse has popped
ErPops == SubSeq(pops, erBase + 1, Len(pops))

\* C9: _expectresponse returns normally exactly when the first line it
\* popped is the empty string and the second is the expected string; in
\* every other case, a timed-out pop included, it raises; and it pops a
\* second time only after an empty first line.
C9_ExpectResponse ==
    /\ erOutcome = "returned" =>
          /\ Len(ErPops) >= 2
          /\ ErPops[1] = Some(EmptyLine)
          /\ ErPops[2] = Some(expected)
    /\ erOutcome = "raised" =>
          /\ outcome = "raised"
          /\ exc = "Exception"
          /\ \/ Len(ErPops) = 1 /\ ErPops[1] # Some(EmptyLine)
             \/ Len(ErPops) = 2 /\ ErPops[1] = Some(EmptyLine)
                                /\ ErPops[2] # Some(expected)
    /\ erOutcome = "running" =>
          /\ Len(ErPops) <= 1
          /\ Len(ErPops) = 1 => ErPops[1] = Some(EmptyLine)

\* _expectresponse("PC-Mode gestartet") has returned inside switchmode
C9_Witness ==
    /\ erOutcome = "returned"
    /\ expected = PcModeStarted
    /\ ErPops = <<Some(EmptyLine), Some(PcModeStarted)>>

PcFields == {"Mode", "version", "serial", "buffill", "datetime"}

\* C10: getversion writes v and then pops; it raises if the first or the
\* second pop times out (after a timed-out first pop there is no second)
\* or if the second line is neither "Standard" nor a match of the PC-mode
\* pattern; when it returns, the mode is Standard or PC, and version,
\* serial, buffill and datetime are there exactly when it is PC.
C10_GetVersion ==
    op = <<"getversion">> =>
       /\ IsPrefix(writes, <<<<"v">>>>)
       /\ Len(pops) > 0 => writes = <<<<"v">>>>
       /\ Len(pops) <= 2
       /\ (Len(pops) >= 1 /\ pops[1] = None) =>
              (outcome = "raised" /\ Len(pops) = 1)
       /\ (Len(pops) = 2 /\ pops[2] = None) => outcome = "raised"
       /\ (Len(pops) = 2 /\ pops[2] # None
              /\ pops[2][1] # StandardLine
              /\ ~VersionPcMatch(pops[2][1]).matched) => outcome = "raised"
       /\ outcome = "returned" =>
              /\ Len(pops) = 2
              /\ ret.Mode \in {"Standard", "PC"}
              /\ ret.Mode = "PC" => DOMAIN ret = PcFields
              /\ ret.Mode = "Standard" => DOMAIN ret = {"Mode"}

\* getversion has returned a PC-mode version with its four fields
C10_Witness ==
    /\ op = <<"getversion">>
    /\ outcome = "returned"
    /\ ret.Mode = "PC"
    /\ ret.buffill = 500

\* string has been written to the transport in this call
Wrote(string) == \E k \in 1..Len(writes) : writes[k] = string

\* the methods that need PC mode, and the command byte of each
GuardedCalls == {"readlog", "clearlog", "devicereset", "readconfig"}
CommandByte(name) ==
    CASE name = "readlog" -> <<"b">>
      [] name = "clearlog" -> <<"z">>
      [] name = "devicereset" -> <<"i">>
      [] name = "readconfig" -> <<"c">>

\* the first version reply of this call reported the given mode
FirstReported(mode) ==
    /\ Len(pops) >= 2
    /\ pops[1] # None
    /\ pops[2] # None
    /\ ParseVersion(pops[2][1]).raised = ""
    /\ ParseVersion(pops[2][1]).value.Mode = mode

\* P was written after a Standard version reply and acknowledged by the
\* pair "", "PC-Mode gestartet"
PcAcknowledged ==
    /\ FirstReported("Standard")
    /\ Len(writes) >= 2
    /\ writes[2] = <<"P">>
    /\ Len(pops) >= 4
    /\ pops[3] = Some(EmptyLine)
    /\ pops[4] = Some(PcModeStarted)

\* C11: in readlog, clearlog, devicereset and readconfig the command byte
\* (b, z, i, c) is among the writes of the call only if, before it was
\* written, the call's version reply reported PC or its P was acknowledged
\* by "", "PC-Mode gestartet"; a call whose guard failed has not written it.
C11_PcModeGuard ==
    (op # <<>> /\ op[1] \in GuardedCalls /\ Wrote(CommandByte(op[1]))) =>
        /\ FirstReported("PC") \/ PcAcknowledged
        /\ writes[1] = <<"v">>
        /\ \A k \in 1..Len(writes) :
              writes[k] = CommandByte(op[1]) =>
                 k > (IF PcAcknowledged THEN 2 ELSE 1)

\* readconfig has written c after its P was acknowledged
C11_Witness ==
    /\ op = <<"readconfig">>
    /\ Wrote(<<"c">>)
    /\ PcAcknowledged
    /\ outcome = "returned"

\* C12: whatever public methods are called one after another, X is among
\* the writes of a call only if the call is switchmode("Standard") and the
\* version reply of that call reported PC, the one mode other than Standard
\* that getversion returns.
C12_NoAutoLeave ==
    Wrote(<<"X">>) =>
        /\ op = <<"switchmode", "Standard">>
        /\ FirstReported("PC")
        /\ writes = <<<<"v">>, <<"X">>>>

\* a later call, switchmode("Standard"), has ended PC mode
C12_Witness ==
    /\ called
    /\ op = <<"switchmode", "Standard">>
    /\ Wrote(<<"X">>)
    /\ outcome = "returned"

\* C13: once close() has set the stop flag the reader loop exits in the
\* end; from then on no read is started (a read is started by the loop
\* test finding the flag clear), so only a read already in flight
\* completes; and when the loop has exited every complete line of what was
\* read, that last read included, has been pushed.
C13_CooperativeStop ==
    /\ [][(quit /\ rpc # "read") => rpc' # "read"]_vars
    /\ [](rpc = "exit" =>
             /\ quit
             /\ Len(pending) = 0
             /\ appended = RxLines(<<>>, stream).lines)
    /\ (quit ~> rpc = "exit")

\* the loop has exited after pushing lines of a read that was in flight
\* when close() set the flag
C13_Witness ==
    /\ rpc = "exit"
    /\ quit
    /\ Len(appended) > endMark

\* a call of settime, directly or through synctime, has built its command
SlowWriting ==
    /\ op # <<>>
    /\ op[1] \in {"settime", "synctime"}
    /\ Len(command) > 0

\* C14: _writeslow writes the command one byte per transport write, the
\* k-th write carrying the k-th byte, and sleeps after each of them, so
\* that a sleep lies between any two consecutive writes; when it has
\* returned, exactly as many writes as the command has bytes were made;
\* and settime pops no line before the last byte is written.
C14_SlowWrite ==
    SlowWriting =>
        /\ Len(writes) <= Len(command)
        /\ \A k \in 1..Len(writes) : writes[k] = <<command[k]>>
        /\ Len(sleeps) \in {Len(writes) - 1, Len(writes)}
        /\ \A k \in 1..Len(sleeps) : sleeps[k] = k
        /\ Top \notin {"ws:write", "ws:sleep"} =>
              (Len(writes) = Len(command) /\ Len(sleeps) = Len(command))
        /\ Len(pops) > 0 => Top \notin {"ws:write", "ws:sleep"}

\* settime has written the thirteen bytes of a command, slept after each,
\* and has then been acknowledged
C14_Witness ==
    /\ op = <<"settime">>
    /\ outcome = "returned"
    /\ Len(writes) = 13
    /\ writes[1] = <<"t">>
    /\ writes[13] = <<"0">>
    /\ Len(sleeps) = 13
    /\ pops = <<Some(EmptyLine), Some(TimeSet)>>

\* a command has ended and the caller has not begun anything else
CommandEnded ==
    /\ stack = <<>>
    /\ outcome \in {"returned", "raised"}
    /\ cpc = "idle"

\* C15: when a command has ended, by returning or by raising, the caller
\* neither owns the lock nor waits on the condition, a reader standing at
\* acquire() can take the lock, and whatever _nextmsg returns from then on
\* is the oldest line not yet returned: returned lines, the line in hand
\* and the queue are the appended lines in order.
C15_QueueUsable ==
    /\ CommandEnded => (lockOwner # "caller" /\ "caller" \notin waiters)
    /\ (CommandEnded /\ rpc = "acquire") => ENABLED RxAcquire
    /\ outcome \in {"returned", "raised"} =>
          /\ returned \o InHand \o databuffer = appended
          /\ (cpc = "return" /\ result # None) =>
                result[1] = appended[Len(returned) + 1]

\* _expectresponse has raised, and a later _nextmsg has returned a line
\* that was pushed after that
C15_Witness ==
    /\ CommandEnded
    /\ outcome = "raised"
    /\ Len(returned) > endMark

\* C16: switchmode with a target other than "Standard" and "PC" raises at
\* its first step: the call never returns, and it has written nothing and
\* popped nothing, before the failure and after it.
C16_BadTarget ==
    op = <<"switchmode", "Other">> =>
        /\ writes = <<>>
        /\ pops = <<>>
        /\ \/ outcome = "running" /\ stack = <<"sw:start">>
           \/ outcome = "raised" /\ exc = "AssertionError"

\* switchmode("Other") has raised and left the line in the queue alone
C16_Witness ==
    /\ op = <<"switchmode", "Other">>
    /\ outcome = "raised"
    /\ Len(databuffer) = 1

\* what a readlog call writes, given its first version reply
ReadlogWrites ==
    IF FirstReported("Standard")
    THEN <<<<"v">>, <<"P">>, <<"v">>, <<"b">>>>
    ELSE <<<<"v">>, <<"v">>, <<"b">>>>

\* how many lines a readlog call pops before its second v
PopsBeforeSecondV == IF FirstReported("Standard") THEN 4 ELSE 2

\* the header pair "", "GAMMA-SCOUT Protokoll" is what readlog popped
\* right after its second version reply
HeaderAccepted ==
    /\ Len(pops) >= PopsBeforeSecondV + 4
    /\ pops[PopsBeforeSecondV + 3] = Some(EmptyLine)
    /\ pops[PopsBeforeSecondV + 4] = Some(ProtocolHeader)

\* C17: the writes of a readlog call are at all times a prefix of v, P (if
\* and only if the first version reply reported Standard), v, b, and all of
\* it once the bulk loop is reached; the second version reply is popped
\* after the second v is written and before b is, and buffill, kept and
\* returned, is the value parsed from it; no line is popped after the
\* header pair "", "GAMMA-SCOUT Protokoll" unless that pair was accepted.
C17_ReadlogOrder ==
    op = <<"readlog">> =>
        LET n == PopsBeforeSecondV
            secondV == n \div 2 + 1
        IN /\ IsPrefix(writes, ReadlogWrites)
           /\ Len(writes) < secondV => Len(pops) <= n
           /\ Len(writes) = secondV => Len(pops) <= n + 2
           /\ Len(writes) > secondV =>
                 /\ Len(pops) >= n + 2
                 /\ pops[n + 2] # None
                 /\ buffill = ParseVersion(pops[n + 2][1]).value.buffill
           /\ (Top = "rl:loop" \/ Len(pops) > n + 4 \/ Len(log) > 0) =>
                 (HeaderAccepted /\ writes = ReadlogWrites)
           /\ outcome = "returned" =>
                 /\ HeaderAccepted
                 /\ writes = ReadlogWrites
                 /\ ret.buffill = ParseVersion(pops[n + 2][1]).value.buffill

\* readlog has switched a Standard device to PC mode and returned the
\* buffer fill of the second version reply with a line's payload
C17_Witness ==
    /\ op = <<"readlog">>
    /\ outcome = "returned"
    /\ writes = <<<<"v">>, <<"P">>, <<"v">>, <<"b">>>>
    /\ pops[6] = Some(VersionLine)
    /\ ret.buffill = 500
    /\ Len(ret.data) > 0

\* readlog's loop is about to pop
AtBulkLoop == op = <<"readlog">> /\ Top = "rl:loop"

\* the line ahead of readlog's loop has an even number of hex digits, and
\* its last byte, if it has one, is the checksum of the others
EvenLineAhead ==
    /\ NmTake # None
    /\ Len(NmTake[1]) % 2 = 0
    /\ HexDecodable(NmTake[1])
    /\ Len(NmTake[1]) > 0 => ChecksumOk(HexDecode(NmTake[1]))

\* C18, for lines without a checksum mismatch: a turn of readlog's loop
\* that pops nothing ends the call with the bytes gathered; one that pops a
\* line of an even number of hex digits, the empty line included, appends
\* the line's bytes but the last and goes on; one that pops a line of odd
\* length raises and nothing is returned.
C18_BulkLoop ==
    [][AtBulkLoop =>
          /\ NmTake = None =>
                /\ outcome' = "returned"
                /\ ret' = [kind |-> "log", buffill |-> buffill, data |-> log]
          /\ EvenLineAhead =>
                /\ outcome' = "running"
                /\ Top' = "rl:loop"
                /\ log' = log \o Front(HexDecode(NmTake[1]))
          /\ (NmTake # None /\ Len(NmTake[1]) % 2 = 1) =>
                /\ outcome' = "raised"
                /\ log' = log
      ]_vars

\* the two decimal digits of n, for n in 0..99
TwoDigits(n) == <<DigitChar(n \div 10), DigitChar(n % 10)>>

\* t and the twelve digits DDMMYYHHMMSS of a timestamp, YY being the year's
\* last two digits
TwelveDigitCommand(ts) ==
    <<"t">> \o TwoDigits(ts[3]) \o TwoDigits(ts[2]) \o TwoDigits(ts[1] % 100)
            \o TwoDigits(ts[4]) \o TwoDigits(ts[5]) \o TwoDigits(ts[6])

\* C19: the command settime builds for a timestamp it accepts is t followed
\* by the twelve decimal digits DDMMYYHHMMSS, two zero-padded digits a
\* field, thirteen characters in all, and that is what it writes.
C19_TimeCommand ==
    SlowWriting =>
        /\ Len(command) = 13
        /\ command[1] = "t"
        /\ \A k \in 2..Len(command) : command[k] \in DecChars
        /\ command = TwelveDigitCommand(timestamp)
        /\ \A k \in 1..Len(writes) : writes[k] = <<command[k]>>

\* no line of the sequence holds a terminator
NoTerminatorIn(lines) == \A k \in 1..Len(lines) : FindCRLF(lines[k]) = 0

\* C20: the pending buffer never holds a CR LF once _rxdata has updated it,
\* and neither does any line queued, appended or about to be appended; a
\* reader iteration whose read returned no byte goes back to the loop test
\* with the pending buffer, the batch and the queue as they were; and the
\* pending buffer changes and the queue grows only in steps of the reader,
\* at its read and at its append.
C20_FramerInvariant ==
    /\ [](/\ FindCRLF(linebuffer) = 0
          /\ NoTerminatorIn(databuffer)
          /\ NoTerminatorIn(appended)
          /\ NoTerminatorIn(pending))
    /\ [][(rpc = "read" /\ stream' = stream) =>
             /\ rpc' = "run"
             /\ linebuffer' = linebuffer
             /\ pending' = pending
             /\ databuffer' = databuffer
             /\ appended' = appended
         ]_<<rpc, linebuffer, pending, appended>>
    /\ [][/\ linebuffer' # linebuffer => (rpc = "read" /\ rpc' # "read")
          /\ Len(databuffer') > Len(databuffer) =>
                (rpc = "append" /\ lockOwner = "reader")
          /\ appended' # appended => rpc = "append"
         ]_vars

\* two lines of one read are queued, one of them popped by the caller, and
\* the CR of a terminator whose LF has not arrived is pending
C20_Witness ==
    /\ linebuffer = <<CR>>
    /\ Len(appended) = 2
    /\ Len(returned) = 1
    /\ Len(databuffer) = 1

====
